---- MODULE Spec2Model ----
(***************************************************************************)
(* Session integrity and account funding of the banking application:       *)
(* createContext (trpc), authRouter (signup, login, logout) and            *)
(* accountRouter (createAccount, getAccounts, fundAccount,                 *)
(* getTransactions) over the tables users, sessions, accounts and          *)
(* transactions.                                                           *)
(*                                                                         *)
(* A request is served by one of the slots in Procs.  Every `await` on the *)
(* storage (or on bcrypt) is a point where another request may run, so     *)
(* every handler is a sequence of steps, one per storage statement; the    *)
(* synchronous code between two awaits belongs to one step.                *)
(*                                                                         *)
(* Units: the clock is in milliseconds (Date.getTime).  Request amounts    *)
(* are in thousandths of a dollar (mills), stored amounts and balances in  *)
(* whole cents: the code stores Math.round(x * 100) / 100, i.e. the        *)
(* double nearest to a whole number of cents.                              *)
(***************************************************************************)
EXTENDS Integers, Sequences, FiniteSets, TLC

\* ------------------------------------------------------------------ bounds
\* Clock advances in one behaviour.
MaxTicks == 2
\* Requests started in one behaviour when requests overlap.
MaxCalls == 3
\* Requests started in one behaviour of the signed-up users' sessions.
MaxSessionCalls == 3
\* Requests started in one behaviour when they run one after another.
MaxSeqCalls == 5
\* Requests started in one behaviour of the funding-source checks.
MaxFundingCalls == 3
\* Requests started in one behaviour of signups followed by logins.
MaxSignupCalls == 4
\* Longest digit string given to isValidLuhn, the test cards apart.
MaxCardLen == 3

\* Request slots: requests that can be in flight at the same time.
Procs == {1, 2}

\* --------------------------------------------------------- program constants
\* createContext: `expiresIn > 60000`.
SoftMarginMs == 60000
\* expiresAt.setDate(expiresAt.getDate() + 7), in milliseconds.
SevenDaysMs == 604800000
\* jwt.sign(..., { expiresIn: "7d" }), in seconds.
JwtLifetimeSec == 604800
\* z.number().min(0.01): 10 mills.
MinAmountMills == 10
\* z.number().max(10000): 10,000,000 mills.
MaxAmountMills == 10000000

\* ------------------------------------------------------------------ inputs
Emails == {"a@x.com", "b@x.com"}
\* One address as a client may type it, in lower case and capitalised.
MixedCaseEmails == {"a@x.com", "A@x.com"}
Passwords == {"Passw0rd!", "Wr0ng-pw!"}
AccountTypes == {"checking", "savings"}
\* Values crypto.randomBytes may produce in generateAccountNumber.
AccountNumbers == {"0000000001", "0000000002"}
\* 0.014 and 0.125 dollars.
Amounts == {14, 125}
\* Account ids a client may send: the rows that can exist, and one that cannot.
AccountIds == 1 .. 2
\* Clock advances: one second, and the lifetime of a session less the soft
\* margin (a session made just before has exactly the margin left).
TickSteps == {1000, SevenDaysMs - SoftMarginMs}
\* The clock stops after two session lifetimes (the clock and the expiry
\* times stay 32-bit integers).
ClockEnd == 2 * SevenDaysMs

\* ------------------------------------------------------------------- tokens
\* A JWT is determined by its payload {userId, iat, exp = iat + 7d} and by
\* whether its HS256 signature was made with the server's secret.
NoToken == [userId |-> 0, iat |-> 0, sig |-> FALSE]
\* A token of a client that does not know the secret.
ForgedToken == [userId |-> 1, iat |-> 0, sig |-> FALSE]

\* jwt.sign({ userId }, secret, { expiresIn: "7d" }) at clock t: iat is the
\* clock in whole seconds, and HS256 is deterministic.
JwtSign(userId, t) == [userId |-> userId, iat |-> t \div 1000, sig |-> TRUE]

\* jwt.verify(token, secret) at clock t: the signature and the exp claim.
JwtVerify(token, t) ==
    /\ token.sig
    /\ (t \div 1000) < token.iat + JwtLifetimeSec

\* bcrypt.hash / bcrypt.compare.
BcryptHash(password) == <<"bcrypt", password>>
BcryptCompare(password, hash) == hash = BcryptHash(password)

\* --------------------------------------------------------------- card checks
\* Card and routing numbers are sequences of characters; a digit is its value.
IsDigit(c) == c \in 0 .. 9
AllDigits(s) == \A i \in 1 .. Len(s) : IsDigit(s[i])

RECURSIVE LuhnSumNoFold(_, _, _)
RECURSIVE LuhnSumFrom(_, _, _)
\* The loop of isValidLuhn: i runs from the last character down to the first,
\* isEven says whether the character at i is doubled.
LuhnSumNoFold(cardNumber, i, isEven) ==
    IF i < 1 THEN 0
    ELSE (IF isEven THEN cardNumber[i] * 2 ELSE cardNumber[i])
           + LuhnSumNoFold(cardNumber, i - 1, ~isEven)
LuhnSumFrom(cardNumber, i, isEven) ==
    IF i < 1 THEN 0
    ELSE LET d == cardNumber[i]
             doubled == IF d * 2 > 9 THEN d * 2 - 9 ELSE d * 2
         IN (IF isEven THEN doubled ELSE d)
              + LuhnSumFrom(cardNumber, i - 1, ~isEven)

isValidLuhn(cardNumber) ==
    LuhnSumFrom(cardNumber, Len(cardNumber), FALSE) % 10 = 0

\* detectCardType: "none" stands for null.
detectCardType(cardNumber) ==
    IF ~AllDigits(cardNumber) THEN "none"
    ELSE IF cardNumber[1] = 4 /\ Len(cardNumber) \in {13, 16} THEN "visa"
    ELSE IF /\ Len(cardNumber) = 16
            /\ cardNumber[1] = 5
            /\ cardNumber[2] \in 1 .. 5 THEN "mastercard"
    ELSE IF /\ Len(cardNumber) = 15
            /\ cardNumber[1] = 3
            /\ cardNumber[2] \in {4, 7} THEN "amex"
    ELSE IF /\ Len(cardNumber) = 16
            /\ cardNumber[1] = 6
            /\ \/ <<cardNumber[2], cardNumber[3], cardNumber[4]>> = <<0, 1, 1>>
               \/ cardNumber[2] = 5 THEN "discover"
    ELSE "none"

VisaTest == <<4, 1, 1, 1, 1, 1, 1, 1, 1, 1, 1, 1, 1, 1, 1, 1>>
VisaBadLuhn == <<4, 1, 1, 1, 1, 1, 1, 1, 1, 1, 1, 1, 1, 1, 1, 2>>
Routing8 == <<1, 2, 3, 4, 5, 6, 7, 8>>

\* Digit strings given to isValidLuhn: every string of up to MaxCardLen
\* digits, and the card numbers of the tests.
CardNumbers ==
    UNION {[1 .. n -> 0 .. 9] : n \in 1 .. MaxCardLen} \cup {VisaTest, VisaBadLuhn}
\* A 16-digit number of no accepted network, with a passing Luhn checksum.
UnknownCard == <<9, 1, 1, 1, 1, 1, 1, 1, 1, 1, 1, 1, 1, 1, 1, 0>>
Routing9 == <<1, 2, 3, 4, 5, 6, 7, 8, 9>>

\* fundingSource: routingNumber <<>> stands for an absent routing number.
NoSource == [type |-> "none", accountNumber |-> <<>>, routingNumber |-> <<>>]
FundingSources ==
    { [type |-> "card", accountNumber |-> VisaTest, routingNumber |-> <<>>],
      [type |-> "card", accountNumber |-> VisaBadLuhn, routingNumber |-> <<>>],
      [type |-> "bank", accountNumber |-> Routing8, routingNumber |-> <<>>] }

\* Every kind of funding source the checks of fundAccount tell apart.
AllFundingSources ==
    FundingSources \cup
    { [type |-> "card", accountNumber |-> UnknownCard, routingNumber |-> <<>>],
      [type |-> "bank", accountNumber |-> Routing8, routingNumber |-> Routing8],
      [type |-> "bank", accountNumber |-> Routing8, routingNumber |-> Routing9] }

\* The checks of fundAccount before it touches the storage: "" when the
\* funding source passes, else the message of the BAD_REQUEST.
FundingSourceUnchecked(source) == ""
FundingSourceError(source) ==
    IF /\ source.type = "bank"
       /\ \/ source.routingNumber = <<>>
          \/ ~(Len(source.routingNumber) = 9 /\ AllDigits(source.routingNumber))
    THEN "A valid 9-digit routing number is required for bank transfers"
    ELSE IF source.type = "card" /\ detectCardType(source.accountNumber) = "none"
    THEN "Invalid card number. We accept Visa, Mastercard, Amex, and Discover."
    ELSE IF source.type = "card" /\ ~isValidLuhn(source.accountNumber)
    THEN "Invalid card number. Please check and try again."
    ELSE ""

\* ------------------------------------------------------------------ amounts
\* Math.round(x * 100) for x = mills / 1000: floor(mills / 10 + 1/2), in cents.
RoundToCents(mills) == (mills + 5) \div 10

\* Math.round((balance + amount) * 100) / 100 of two stored values, in cents.
AmountAlone(balanceCents, amountCents) == RoundToCents(amountCents * 10)
AddRounded(balanceCents, amountCents) ==
    RoundToCents(balanceCents * 10 + amountCents * 10)

\* z.string().toLowerCase() on the emails of the model.
ToLowerCase(email) == IF email = "A@x.com" THEN "a@x.com" ELSE email

\* How requests arrive: how many in a behaviour, overlapping or one after
\* another, whether clients also send forged tokens, and the emails and
\* funding sources they send.
Overlapping == [most |-> MaxCalls, overlap |-> TRUE, forged |-> FALSE,
                emails |-> Emails, sources |-> FundingSources]
OverlappingSessions == [most |-> MaxSessionCalls, overlap |-> TRUE, forged |-> TRUE,
                        emails |-> Emails, sources |-> FundingSources]
OneByOne == [most |-> MaxSeqCalls, overlap |-> FALSE, forged |-> FALSE,
             emails |-> Emails, sources |-> FundingSources]
OneByOneMixedCase == [most |-> MaxSignupCalls, overlap |-> FALSE, forged |-> FALSE,
                      emails |-> MixedCaseEmails, sources |-> FundingSources]
OneByOneFunding == [most |-> MaxFundingCalls, overlap |-> FALSE, forged |-> FALSE,
                    emails |-> Emails, sources |-> AllFundingSources]

\* -------------------------------------------------------------------- state
VARIABLES
    now,           \* the clock, in milliseconds
    ticks,         \* clock advances so far
    calls,         \* requests started so far
    users,         \* table users: sequence of rows, id = position
    sessions,      \* table sessions: set of rows, token UNIQUE
    accounts,      \* table accounts: sequence of rows, id = position
    transactions,  \* table transactions: sequence of rows, id = position
    req,           \* the request each slot is serving
    issued,        \* tokens sent to clients in Set-Cookie (history)
    returnedIds,   \* ids of the transactions earlier fundAccount calls returned (history)
    funded,        \* per account, what successful fundAccount calls were asked to add (history)
    luhn           \* the card number under isValidLuhn and its verdicts

vars == <<now, ticks, calls, users, sessions, accounts, transactions, req,
          issued, returnedIds, funded, luhn>>

tables == <<users, sessions, accounts, transactions>>

NoTx == [id |-> 0, accountId |-> 0, type |-> "", amount |-> 0,
         description |-> "", status |-> "", createdAt |-> 0, processedAt |-> 0]

NoResult == [code |-> "", message |-> "", success |-> FALSE, token |-> NoToken,
             transaction |-> NoTx, newBalance |-> 0, rows |-> <<>>]

\* A slot that serves no request.
IdleReq ==
    [pc |-> "idle", op |-> "none", cookie |-> NoToken, user |-> 0,
     email |-> "", password |-> "", accountType |-> "", accountId |-> 0,
     amount |-> 0, source |-> NoSource, found |-> 0, token |-> NoToken,
     expiresAt |-> 0, accountNumber |-> "", readBalance |-> 0,
     insertedId |-> 0, earlier |-> {}, result |-> NoResult]

\* No card number is under check.
NoLuhn == [cardNumber |-> <<>>, valid |-> "unchecked",
           changed |-> <<>>, changedValid |-> "unchecked"]

\* The response of a handler that throws a TRPCError.
Failure(code, message) == [NoResult EXCEPT !.code = code, !.message = message]
\* The response of a handler that returns.
Success == [NoResult EXCEPT !.code = "OK", !.success = TRUE]

\* Slot p moves to r.
Goto(p, r) == req' = [req EXCEPT ![p] = r]
\* Slot p ends with `result`.
Finish(p, result) == Goto(p, [req[p] EXCEPT !.pc = "done", !.result = result])

Init ==
    /\ now = 0
    /\ ticks = 0
    /\ calls = 0
    /\ users = <<>>
    /\ sessions = {}
    /\ accounts = <<>>
    /\ transactions = <<>>
    /\ req = [p \in Procs |-> IdleReq]
    /\ issued = {}
    /\ returnedIds = {}
    /\ funded = <<>>
    /\ luhn = NoLuhn

\* Time passes.
Tick ==
    /\ ticks < MaxTicks
    /\ \E d \in TickSteps : now + d <= ClockEnd /\ now' = now + d
    /\ ticks' = ticks + 1
    /\ UNCHANGED <<luhn, calls, tables, req, issued, returnedIds, funded>>

\* ------------------------------------------------------------------ storage
UserByEmail(email) == {i \in 1 .. Len(users) : users[i].email = email}
SessionsOfToken(token) == {s \in sessions : s.token = token}
SessionsOfUser(userId) == {s \in sessions : s.userId = userId}

\* ------------------------------------------------------------ createContext
\* Cookies a client can send: none, a token the server issued, or a forgery.
Cookies(forged) ==
    {NoToken} \cup issued \cup (IF forged THEN {ForgedToken} ELSE {})

\* `expiresIn > 60000`.
SessionLiveNoMargin(expiresAt, t) == expiresAt - t > 0
SessionLive(expiresAt, t) == expiresAt - t > SoftMarginMs

\* The id of ctx.user (0 for null) for the cookie token at clock t.  The user
\* row is read by decoded.userId; rows of users are never deleted.
ContextUser(token, t) ==
    IF token = NoToken \/ ~JwtVerify(token, t) THEN 0
    ELSE IF SessionsOfToken(token) = {} THEN 0
    ELSE LET session == CHOOSE s \in SessionsOfToken(token) : TRUE
         IN IF SessionLive(session.expiresAt, t) /\ token.userId \in 1 .. Len(users)
            THEN token.userId
            ELSE 0

\* A request arrives with its cookie and createContext resolves ctx.user; the
\* procedure runs next.  The request is served in the first free slot p.
\* sched.most bounds the requests of a behaviour; without sched.overlap a
\* request arrives only when no other request is being served.
CreateContext(p, op, r, sched) ==
    /\ req[p].pc = "idle"
    /\ calls < sched.most
    /\ sched.overlap \/ \A q \in Procs : req[q].pc = "idle"
    /\ \A q \in Procs : q < p => req[q].pc # "idle"
    /\ calls' = calls + 1
    /\ \E cookie \in (IF op \in {"signup", "login"} THEN {NoToken}
                         ELSE Cookies(sched.forged)) :
         Goto(p, [r EXCEPT !.pc = op, !.op = op, !.cookie = cookie,
                           !.user = ContextUser(cookie, now)])
    /\ UNCHANGED <<luhn, now, ticks, tables, issued, returnedIds, funded>>

\* The response leaves the server and the slot is free again.
Respond(p) ==
    /\ req[p].pc = "done"
    /\ Goto(p, IdleReq)
    /\ returnedIds' =
         IF req[p].op = "fundAccount" /\ req[p].result.code = "OK"
         THEN returnedIds \cup {req[p].result.transaction.id}
         ELSE returnedIds
    /\ UNCHANGED <<luhn, now, ticks, calls, tables, issued, funded>>

\* ------------------------------------------------------------------- signup
BeginSignup(p, sched) ==
    \E email \in sched.emails, password \in Passwords :
        CreateContext(p, "signup", [IdleReq EXCEPT !.email = ToLowerCase(email),
                                            !.password = password], sched)

\* select the user by email; CONFLICT when there is one.
SignupCheck(p) ==
    /\ req[p].pc = "signup"
    /\ IF UserByEmail(req[p].email) # {}
       THEN Finish(p, Failure("CONFLICT", "User already exists"))
       ELSE Goto(p, [req[p] EXCEPT !.pc = "signup_insert"])
    /\ UNCHANGED <<luhn, now, ticks, calls, tables, issued, returnedIds, funded>>

\* bcrypt.hash, then insert into users (email UNIQUE).
SignupInsert(p) ==
    /\ req[p].pc = "signup_insert"
    /\ IF UserByEmail(req[p].email) # {}
       THEN /\ Finish(p, Failure("INTERNAL_SERVER_ERROR", "UNIQUE constraint failed"))
            /\ users' = users
       ELSE /\ users' = Append(users, [id |-> Len(users) + 1,
                                       email |-> req[p].email,
                                       password |-> BcryptHash(req[p].password)])
            /\ Goto(p, [req[p] EXCEPT !.pc = "signup_fetch"])
    /\ UNCHANGED <<luhn, now, ticks, calls, sessions, accounts, transactions,
                   issued, returnedIds, funded>>

\* select the created user, sign the token, compute expiresAt.
SignupFetch(p) ==
    /\ req[p].pc = "signup_fetch"
    /\ IF UserByEmail(req[p].email) = {}
       THEN Finish(p, Failure("INTERNAL_SERVER_ERROR", "Failed to create user"))
       ELSE LET id == CHOOSE i \in UserByEmail(req[p].email) : TRUE
            IN Goto(p, [req[p] EXCEPT !.pc = "signup_delete",
                                      !.found = id,
                                      !.token = JwtSign(id, now),
                                      !.expiresAt = now + SevenDaysMs])
    /\ UNCHANGED <<luhn, now, ticks, calls, tables, issued, returnedIds, funded>>

\* delete from sessions where userId = user.id.
DeleteSessions(p, next) ==
    /\ sessions' = sessions \ SessionsOfUser(req[p].found)
    /\ Goto(p, [req[p] EXCEPT !.pc = next])
    /\ UNCHANGED <<luhn, now, ticks, calls, users, accounts, transactions,
                   issued, returnedIds, funded>>

\* insert into sessions (token UNIQUE), set the cookie, return the token.
InsertSession(p) ==
    /\ IF SessionsOfToken(req[p].token) # {}
       THEN /\ Finish(p, Failure("INTERNAL_SERVER_ERROR", "UNIQUE constraint failed"))
            /\ UNCHANGED <<sessions, issued>>
       ELSE /\ sessions' = sessions \cup {[userId |-> req[p].found,
                                           token |-> req[p].token,
                                           expiresAt |-> req[p].expiresAt]}
            /\ issued' = issued \cup {req[p].token}
            /\ Goto(p, [req[p] EXCEPT
                         !.pc = "done",
                         !.earlier = {t \in issued : t.userId = req[p].found},
                         !.result = [Success EXCEPT !.token = req[p].token]])
    /\ UNCHANGED <<luhn, now, ticks, calls, users, accounts, transactions,
                   returnedIds, funded>>

SignupDelete(p) == req[p].pc = "signup_delete" /\ DeleteSessions(p, "signup_session")
SignupSession(p) == req[p].pc = "signup_session" /\ InsertSession(p)

\* -------------------------------------------------------------------- login
BeginLogin(p, sched) ==
    \E email \in sched.emails, password \in Passwords :
        CreateContext(p, "login", [IdleReq EXCEPT !.email = email, !.password = password], sched)

\* select the user by email; UNAUTHORIZED when there is none.
LoginFind(p) ==
    /\ req[p].pc = "login"
    /\ IF UserByEmail(req[p].email) = {}
       THEN Finish(p, Failure("UNAUTHORIZED", "Invalid credentials"))
       ELSE Goto(p, [req[p] EXCEPT !.pc = "login_compare",
                                   !.found = CHOOSE i \in UserByEmail(req[p].email) : TRUE])
    /\ UNCHANGED <<luhn, now, ticks, calls, tables, issued, returnedIds, funded>>

\* bcrypt.compare against the row read by LoginFind, then sign the token.
LoginCompare(p) ==
    /\ req[p].pc = "login_compare"
    /\ IF ~BcryptCompare(req[p].password, users[req[p].found].password)
       THEN Finish(p, Failure("UNAUTHORIZED", "Invalid credentials"))
       ELSE Goto(p, [req[p] EXCEPT !.pc = "login_delete",
                                   !.token = JwtSign(req[p].found, now),
                                   !.expiresAt = now + SevenDaysMs])
    /\ UNCHANGED <<luhn, now, ticks, calls, tables, issued, returnedIds, funded>>

LoginDelete(p) == req[p].pc = "login_delete" /\ DeleteSessions(p, "login_session")
LoginSession(p) == req[p].pc = "login_session" /\ InsertSession(p)

\* ------------------------------------------------------------------- logout
BeginLogout(p, sched) == CreateContext(p, "logout", IdleReq, sched)

\* db.delete(sessions).where(eq(sessions.token, token)): the rows it deletes.
DeletesNothing(token) == {}
DeletedByLogout(token) == SessionsOfToken(token)

\* Without ctx.user: success false.  Else delete the session of the cookie
\* token and report `deleted`, which the code sets to true after the delete.
Logout(p) ==
    /\ req[p].pc = "logout"
    /\ IF req[p].user = 0
       THEN /\ Finish(p, [Failure("OK", "No active session") EXCEPT !.success = FALSE])
            /\ sessions' = sessions
       ELSE /\ sessions' = sessions \ DeletedByLogout(req[p].cookie)
            /\ Finish(p, [Success EXCEPT !.message = "Logged out successfully"])
    /\ UNCHANGED <<luhn, now, ticks, calls, users, accounts, transactions,
                   issued, returnedIds, funded>>

AuthStep(p, sched) ==
    \/ BeginSignup(p, sched) \/ SignupCheck(p) \/ SignupInsert(p) \/ SignupFetch(p)
    \/ SignupDelete(p) \/ SignupSession(p)
    \/ BeginLogin(p, sched) \/ LoginFind(p) \/ LoginCompare(p)
    \/ LoginDelete(p) \/ LoginSession(p)
    \/ BeginLogout(p, sched) \/ Logout(p)

NextAuth ==
    \/ Tick
    \/ \E p \in Procs :
         Respond(p) \/ AuthStep(p, Overlapping)

SpecAuth == Init /\ [][NextAuth]_vars

NextSignupLogin ==
    \E p \in Procs :
        Respond(p) \/ AuthStep(p, OneByOneMixedCase)

\* Signups, logins and logouts one after another, with addresses in lower
\* case and capitalised.
SpecSignupLogin == Init /\ [][NextSignupLogin]_vars

\* ------------------------------------------------------------ accountRouter
\* protectedProcedure: UNAUTHORIZED without ctx.user.
Forbidden == Failure("FORBIDDEN", "FORBIDDEN")
Unauthorized == Failure("UNAUTHORIZED", "UNAUTHORIZED")

AccountsOfUser(userId) == {i \in 1 .. Len(accounts) : accounts[i].userId = userId}
AccountsOfNoNumber(number) == {}
AccountsOfNumber(number) ==
    {i \in 1 .. Len(accounts) : accounts[i].accountNumber = number}
TransactionsOf(accountId) ==
    {i \in 1 .. Len(transactions) : transactions[i].accountId = accountId}

\* The sum of the amount column over the rows of the account from row i on.
RECURSIVE LedgerSumFrom(_, _)
LedgerSumFrom(accountId, i) ==
    IF i > Len(transactions) THEN 0
    ELSE (IF transactions[i].accountId = accountId THEN transactions[i].amount ELSE 0)
           + LedgerSumFrom(accountId, i + 1)

\* where id = accountId, whoever owns the row.
AccountById(accountId, userId) == {i \in 1 .. Len(accounts) : i = accountId}
\* where and(eq(accounts.id, accountId), eq(accounts.userId, ctx.user.id)).
OwnedAccount(accountId, userId) ==
    {i \in 1 .. Len(accounts) : i = accountId /\ accounts[i].userId = userId}

\* ------------------------------------------------------------ createAccount
BeginCreateAccount(p, sched) ==
    \E type \in AccountTypes :
        CreateContext(p, "createAccount", [IdleReq EXCEPT !.accountType = type], sched)

\* select an account of the user with this type; CONFLICT when there is one.
CreateCheck(p) ==
    /\ req[p].pc = "createAccount"
    /\ IF req[p].user = 0 THEN Finish(p, Unauthorized)
       ELSE IF \E i \in AccountsOfUser(req[p].user) :
                   accounts[i].accountType = req[p].accountType
       THEN Finish(p, Failure("CONFLICT", "You already have an account of this type"))
       ELSE Goto(p, [req[p] EXCEPT !.pc = "create_generate"])
    /\ UNCHANGED <<luhn, now, ticks, calls, tables, issued, returnedIds, funded>>

\* One turn of the loop: generateAccountNumber, then select by that number.
\* A number in use leaves the request in the loop.
CreateGenerate(p) ==
    /\ req[p].pc = "create_generate"
    /\ \E number \in AccountNumbers :
         /\ AccountsOfNumber(number) = {}
         /\ Goto(p, [req[p] EXCEPT !.pc = "create_insert", !.accountNumber = number])
    /\ UNCHANGED <<luhn, now, ticks, calls, tables, issued, returnedIds, funded>>

\* insert into accounts (accountNumber UNIQUE) with balance 0, status active.
CreateInsert(p) ==
    /\ req[p].pc = "create_insert"
    /\ IF AccountsOfNumber(req[p].accountNumber) # {}
       THEN /\ Finish(p, Failure("INTERNAL_SERVER_ERROR", "UNIQUE constraint failed"))
            /\ UNCHANGED <<accounts, funded>>
       ELSE /\ accounts' = Append(accounts, [id |-> Len(accounts) + 1,
                                             userId |-> req[p].user,
                                             accountNumber |-> req[p].accountNumber,
                                             accountType |-> req[p].accountType,
                                             balance |-> 0,
                                             status |-> "active"])
            /\ funded' = Append(funded, [asked |-> 0, cents |-> 0])
            /\ Goto(p, [req[p] EXCEPT !.pc = "create_fetch"])
    /\ UNCHANGED <<luhn, now, ticks, calls, users, sessions, transactions,
                   issued, returnedIds>>

\* select the created account by its number and return it.
CreateFetch(p) ==
    /\ req[p].pc = "create_fetch"
    /\ IF AccountsOfNumber(req[p].accountNumber) = {}
       THEN Finish(p, Failure("INTERNAL_SERVER_ERROR",
                              "Failed to create account. Please try again."))
       ELSE Finish(p, [Success EXCEPT !.rows =
                <<accounts[CHOOSE i \in AccountsOfNumber(req[p].accountNumber) : TRUE]>>])
    /\ UNCHANGED <<luhn, now, ticks, calls, tables, issued, returnedIds, funded>>

\* -------------------------------------------------------------- getAccounts
BeginGetAccounts(p, sched) == CreateContext(p, "getAccounts", IdleReq, sched)

\* The rows of s whose position is in the set ids, in storage order.
RECURSIVE RowsIn(_, _, _)
RowsIn(s, ids, i) ==
    IF i > Len(s) THEN <<>>
    ELSE (IF i \in ids THEN <<s[i]>> ELSE <<>>) \o RowsIn(s, ids, i + 1)

GetAccounts(p) ==
    /\ req[p].pc = "getAccounts"
    /\ IF req[p].user = 0 THEN Finish(p, Unauthorized)
       ELSE Finish(p, [Success EXCEPT
                        !.rows = RowsIn(accounts, AccountsOfUser(req[p].user), 1)])
    /\ UNCHANGED <<luhn, now, ticks, calls, tables, issued, returnedIds, funded>>

\* -------------------------------------------------------------- fundAccount
BeginFundAccount(p, sched) ==
    \E accountId \in AccountIds, amount \in Amounts, source \in sched.sources :
        CreateContext(p, "fundAccount", [IdleReq EXCEPT !.accountId = accountId,
                                                 !.amount = amount,
                                                 !.source = source], sched)

\* const amount = Math.round(input.amount * 100) / 100, in cents.
RoundDown(mills) == mills \div 10
RoundedAmount(mills) == RoundToCents(mills)

\* The middleware, the input schema, the funding-source checks, then the
\* select of the account by id and owner and the status check.
FundLookup(p) ==
    /\ req[p].pc = "fundAccount"
    /\ LET r == req[p]
           found == OwnedAccount(r.accountId, r.user)
       IN IF r.user = 0 THEN Finish(p, Unauthorized)
          ELSE IF r.amount < MinAmountMills
          THEN Finish(p, Failure("BAD_REQUEST", "Amount must be at least $0.01"))
          ELSE IF r.amount > MaxAmountMills
          THEN Finish(p, Failure("BAD_REQUEST", "Amount cannot exceed $10,000"))
          ELSE IF FundingSourceError(r.source) # ""
          THEN Finish(p, Failure("BAD_REQUEST", FundingSourceError(r.source)))
          ELSE IF found = {}
          THEN Finish(p, Failure("NOT_FOUND", "Account not found"))
          ELSE IF accounts[r.accountId].status # "active"
          THEN Finish(p, Failure("BAD_REQUEST", "Account is not active"))
          ELSE Goto(p, [r EXCEPT !.pc = "fund_insert",
                                 !.readBalance = accounts[r.accountId].balance])
    /\ UNCHANGED <<luhn, now, ticks, calls, tables, issued, returnedIds, funded>>

\* db.insert(transactions).values(row): one new row after the rows there are.
InsertTwice(rows, row) == Append(Append(rows, row), row)
InsertRow(rows, row) == Append(rows, row)

\* insert into transactions; created_at defaults to CURRENT_TIMESTAMP (seconds).
FundInsert(p) ==
    /\ req[p].pc = "fund_insert"
    /\ transactions' = InsertRow(transactions,
           [id |-> Len(transactions) + 1,
            accountId |-> req[p].accountId,
            type |-> "deposit",
            amount |-> RoundedAmount(req[p].amount),
            description |-> req[p].source.type,
            status |-> "completed",
            createdAt |-> now \div 1000,
            processedAt |-> now])
    /\ Goto(p, [req[p] EXCEPT !.pc = "fund_select",
                              !.insertedId = Len(transactions) + 1])
    /\ UNCHANGED <<luhn, now, ticks, calls, users, sessions, accounts,
                   issued, returnedIds, funded>>

\* The id the re-read selects among ids: orderBy(desc(id)).limit(1).
OldestId(ids) == CHOOSE i \in ids : \A j \in ids : i <= j
NewestId(ids) == CHOOSE i \in ids : \A j \in ids : i >= j

\* select the newest transaction of the account.
FundSelect(p) ==
    /\ req[p].pc = "fund_select"
    /\ LET ids == TransactionsOf(req[p].accountId)
       IN Goto(p, [req[p] EXCEPT
                    !.pc = "fund_update",
                    !.result = [Success EXCEPT !.transaction =
                        IF ids = {} THEN NoTx ELSE transactions[NewestId(ids)]]])
    /\ UNCHANGED <<luhn, now, ticks, calls, tables, issued, returnedIds, funded>>

\* const newBalance = Math.round((account.balance + amount) * 100) / 100,
\* from the account row FundLookup read; `stored` is the balance in storage
\* when the update runs.
NewBalanceFromStored(readBalance, stored, amountCents) ==
    AddRounded(stored, amountCents)
NewBalance(readBalance, stored, amountCents) ==
    AddRounded(readBalance, amountCents)

\* update accounts set balance = newBalance where id = accountId; return.
FundUpdate(p) ==
    /\ req[p].pc = "fund_update"
    /\ LET r == req[p]
           newBalance == NewBalance(r.readBalance, accounts[r.accountId].balance,
                                    RoundedAmount(r.amount))
       IN /\ accounts' = [accounts EXCEPT ![r.accountId].balance = newBalance]
          /\ funded' = [funded EXCEPT
                          ![r.accountId].asked = @ + r.amount,
                          ![r.accountId].cents = @ + (r.amount + 5) \div 10]
          /\ Goto(p, [r EXCEPT !.pc = "done", !.result.newBalance = newBalance])
    /\ UNCHANGED <<luhn, now, ticks, calls, users, sessions, transactions,
                   issued, returnedIds>>

\* ---------------------------------------------------------- getTransactions
BeginGetTransactions(p, sched) ==
    \E accountId \in AccountIds :
        CreateContext(p, "getTransactions", [IdleReq EXCEPT !.accountId = accountId], sched)

\* select the account by id and owner; NOT_FOUND without one.
TransactionsLookup(p) ==
    /\ req[p].pc = "getTransactions"
    /\ IF req[p].user = 0 THEN Finish(p, Unauthorized)
       ELSE IF OwnedAccount(req[p].accountId, req[p].user) = {}
       THEN Finish(p, Failure("NOT_FOUND", "Account not found"))
       ELSE Goto(p, [req[p] EXCEPT !.pc = "transactions_select",
                                   !.accountType = accounts[req[p].accountId].accountType])
    /\ UNCHANGED <<luhn, now, ticks, calls, tables, issued, returnedIds, funded>>

\* The orders in which the storage may return the rows ids of transactions
\* for orderBy(desc(createdAt)): rows of one second come in any order.
ByCreatedAtDesc(ids) ==
    {s \in [1 .. Cardinality(ids) -> ids] :
        /\ \A i, j \in DOMAIN s : i # j => s[i] # s[j]
        /\ \A i, j \in DOMAIN s :
             i < j => transactions[s[i]].createdAt >= transactions[s[j]].createdAt}

\* select the transactions of the account, enriched with the account type.
TransactionsSelect(p) ==
    /\ req[p].pc = "transactions_select"
    /\ \E order \in ByCreatedAtDesc(TransactionsOf(req[p].accountId)) :
         Finish(p, [Success EXCEPT !.rows =
             [i \in DOMAIN order |->
                 [id |-> order[i],
                  amount |-> transactions[order[i]].amount,
                  createdAt |-> transactions[order[i]].createdAt,
                  accountType |-> req[p].accountType]]])
    /\ UNCHANGED <<luhn, now, ticks, calls, tables, issued, returnedIds, funded>>

AccountStep(p, sched) ==
    \/ BeginCreateAccount(p, sched) \/ CreateCheck(p) \/ CreateGenerate(p)
    \/ CreateInsert(p) \/ CreateFetch(p)
    \/ BeginGetAccounts(p, sched) \/ GetAccounts(p)
    \/ BeginFundAccount(p, sched) \/ FundLookup(p) \/ FundInsert(p)
    \/ FundSelect(p) \/ FundUpdate(p)
    \/ BeginGetTransactions(p, sched) \/ TransactionsLookup(p) \/ TransactionsSelect(p)

\* ----------------------------------------------------------- specifications
\* Two users have signed up at clock 0 and hold their sessions.
InitSignedUp ==
    /\ now = 0
    /\ ticks = 0
    /\ calls = 0
    /\ users = [i \in 1 .. 2 |->
                  [id |-> i,
                   email |-> IF i = 1 THEN "a@x.com" ELSE "b@x.com",
                   password |-> BcryptHash("Passw0rd!")]]
    /\ sessions = {[userId |-> i, token |-> JwtSign(i, 0), expiresAt |-> SevenDaysMs] :
                     i \in 1 .. 2}
    /\ accounts = <<>>
    /\ transactions = <<>>
    /\ req = [p \in Procs |-> IdleReq]
    /\ issued = {JwtSign(i, 0) : i \in 1 .. 2}
    /\ returnedIds = {}
    /\ funded = <<>>
    /\ luhn = NoLuhn

NextLedger ==
    \E p \in Procs :
        Respond(p) \/ AccountStep(p, Overlapping)

\* Logins and logouts of two signed-up users while time passes.
SessionStep(p, sched) ==
    \/ BeginLogin(p, sched) \/ LoginFind(p) \/ LoginCompare(p)
    \/ LoginDelete(p) \/ LoginSession(p)
    \/ BeginLogout(p, sched) \/ Logout(p)

NextSession ==
    \/ Tick
    \/ \E p \in Procs : Respond(p) \/ SessionStep(p, OverlappingSessions)

SpecSession == InitSignedUp /\ [][NextSession]_vars

\* The account operations of two signed-up users, requests overlapping.
SpecLedger == InitSignedUp /\ [][NextLedger]_vars


NextLedgerSeq ==
    \E p \in Procs :
        Respond(p) \/ AccountStep(p, OneByOne)

\* The same operations, one request after another.
SpecLedgerSeq == InitSignedUp /\ [][NextLedgerSeq]_vars

\* createAccount and fundAccount alone.
FundingStep(p, sched) ==
    \/ BeginCreateAccount(p, sched) \/ CreateCheck(p) \/ CreateGenerate(p)
    \/ CreateInsert(p) \/ CreateFetch(p)
    \/ BeginFundAccount(p, sched) \/ FundLookup(p) \/ FundInsert(p)
    \/ FundSelect(p) \/ FundUpdate(p)

\* ----------------------------------------------------------------- isValidLuhn
InitLuhn ==
    /\ now = 0
    /\ ticks = 0
    /\ calls = 0
    /\ users = <<>>
    /\ sessions = {}
    /\ accounts = <<>>
    /\ transactions = <<>>
    /\ req = [p \in Procs |-> IdleReq]
    /\ issued = {}
    /\ returnedIds = {}
    /\ funded = <<>>
    /\ luhn \in {[NoLuhn EXCEPT !.cardNumber = cardNumber] : cardNumber \in CardNumbers}

Verdict(accepted) == IF accepted THEN "yes" ELSE "no"

\* isValidLuhn(cardNumber).
LuhnCheck ==
    /\ luhn.valid = "unchecked"
    /\ luhn' = [luhn EXCEPT !.valid = Verdict(isValidLuhn(luhn.cardNumber))]
    /\ UNCHANGED <<now, ticks, calls, tables, req, issued, returnedIds, funded>>

\* One digit of the card number is replaced by another digit.
ReplaceDigit ==
    /\ luhn.valid # "unchecked"
    /\ luhn.changed = <<>>
    /\ \E i \in 1 .. Len(luhn.cardNumber), d \in 0 .. 9 :
         /\ d # luhn.cardNumber[i]
         /\ luhn' = [luhn EXCEPT !.changed = [luhn.cardNumber EXCEPT ![i] = d]]
    /\ UNCHANGED <<now, ticks, calls, tables, req, issued, returnedIds, funded>>

\* isValidLuhn of the changed number.
LuhnCheckChanged ==
    /\ luhn.changed # <<>>
    /\ luhn.changedValid = "unchecked"
    /\ luhn' = [luhn EXCEPT !.changedValid = Verdict(isValidLuhn(luhn.changed))]
    /\ UNCHANGED <<now, ticks, calls, tables, req, issued, returnedIds, funded>>

NextLuhn == LuhnCheck \/ ReplaceDigit \/ LuhnCheckChanged

SpecLuhn == InitLuhn /\ [][NextLuhn]_vars

NextFunding ==
    \E p \in Procs :
        Respond(p) \/ FundingStep(p, OneByOneFunding)

\* Accounts created and funded with every kind of funding source, one
\* request after another.
SpecFunding == InitSignedUp /\ [][NextFunding]_vars

\* =================================================================== claims

\* C1: in every reachable state the sessions table holds at most one row
\* per user id.
C1_OneSessionPerUser ==
    \A u \in 1 .. Len(users) : Cardinality(SessionsOfUser(u)) <= 1

\* C2: after a successful login for user u, every token that an earlier
\* signup or login issued to u fails context resolution.
C2_EarlierTokensFail ==
    \A p \in Procs :
        (req[p].pc = "done" /\ req[p].op = "login" /\ req[p].result.code = "OK")
            => \A t \in req[p].earlier : ContextUser(t, now) = 0

\* C3: for a token with a valid signature whose session row exists,
\* createContext resolves the user if and only if expiresAt - now is strictly
\* greater than 60 seconds, and it never deletes or modifies a session row.
C3_SoftExpiry ==
    [][\A p \in Procs :
          (req[p].pc = "idle" /\ req'[p].pc # "idle")
              => /\ sessions' = sessions
                 /\ (req'[p].cookie.sig /\ SessionsOfToken(req'[p].cookie) # {})
                      => LET session == CHOOSE s \in SessionsOfToken(req'[p].cookie) : TRUE
                         IN IF session.expiresAt - now > SoftMarginMs
                            THEN req'[p].user = session.userId
                            ELSE req'[p].user = 0]_vars

\* C3 witness: a request whose signed cookie has a session row with at most
\* the soft margin left, and not yet expired, was resolved to no identity
\* and the row is still there.
C3_Witness ==
    \E p \in Procs, s \in sessions :
        /\ req[p].pc = req[p].op
        /\ req[p].cookie.sig
        /\ s.token = req[p].cookie
        /\ s.expiresAt - now > 0
        /\ s.expiresAt - now <= SoftMarginMs
        /\ req[p].user = 0

\* C9: logout reports success only when a session row of the cookie token
\* existed and the call deleted it; without an identity it returns
\* success = false without an error and leaves the sessions table alone.
C9_LogoutSuccessMeansDeleted ==
    [][\A p \in Procs :
          (req[p].pc = "logout" /\ req'[p].pc = "done")
              => /\ req[p].user = 0
                      => /\ ~req'[p].result.success
                         /\ req'[p].result.code = "OK"
                         /\ sessions' = sessions
                 /\ req'[p].result.success
                      => /\ SessionsOfToken(req[p].cookie) # {}
                         /\ {s \in sessions' : s.token = req[p].cookie} = {}]_vars

\* C4 as claimed: the balance of an account is the sum of the amounts asked,
\* rounded once to whole cents.
C4_SumRoundedOnce ==
    \A a \in 1 .. Len(accounts) :
        accounts[a].balance = (funded[a].asked + 5) \div 10

\* C4 amended: the balance of an account is the sum of the amounts asked,
\* each rounded to whole cents before it is added.
C4_SumOfRounded ==
    \A a \in 1 .. Len(accounts) : accounts[a].balance = funded[a].cents

\* C4 witness: an account funded by calls whose amounts, each rounded, add
\* up to another balance than their sum rounded once.
C4_Witness ==
    \E a \in 1 .. Len(accounts) :
        /\ accounts[a].balance = funded[a].cents
        /\ accounts[a].balance > 0
        /\ funded[a].cents # (funded[a].asked + 5) \div 10

\* C5: when fundAccount calls run one after another, a successful call
\* returns the transaction row it inserted: with the call's rounded amount
\* and an id that no earlier call returned.
C5_ReturnsInsertedRow ==
    \A p \in Procs :
        (req[p].pc = "done" /\ req[p].op = "fundAccount" /\ req[p].result.code = "OK")
            => /\ req[p].result.transaction.id = req[p].insertedId
               /\ req[p].result.transaction.amount = (req[p].amount + 5) \div 10
               /\ req[p].result.transaction.accountId = req[p].accountId
               /\ req[p].result.transaction.id \notin returnedIds

\* C5 witness: a second successful fundAccount call on an account has
\* returned its transaction.
C5_Witness ==
    \E p \in Procs :
        /\ req[p].pc = "done" /\ req[p].op = "fundAccount" /\ req[p].result.code = "OK"
        /\ returnedIds # {}
        /\ \E i \in returnedIds : transactions[i].accountId = req[p].accountId
        /\ req[p].result.transaction.id = req[p].insertedId

\* C6: in every reachable state no user owns two accounts of the same type.
C6_OneAccountPerType ==
    \A i, j \in 1 .. Len(accounts) :
        (i # j /\ accounts[i].userId = accounts[j].userId)
            => accounts[i].accountType # accounts[j].accountType

\* C7: when two successful fundAccount calls on one account have both read
\* the same old balance, the stored balance is that old balance plus the
\* amount of only one of them.
C7_LostUpdate ==
    \A p, q \in Procs :
        ( /\ p # q
          /\ req[p].pc = "done" /\ req[p].op = "fundAccount" /\ req[p].result.code = "OK"
          /\ req[q].pc = "done" /\ req[q].op = "fundAccount" /\ req[q].result.code = "OK"
          /\ req[p].accountId = req[q].accountId
          /\ req[p].readBalance = req[q].readBalance )
            => accounts[req[p].accountId].balance \in
                   { req[p].readBalance + (req[p].amount + 5) \div 10,
                     req[q].readBalance + (req[q].amount + 5) \div 10 }

\* C7 witness: two overlapping fundAccount calls on one account both
\* succeeded and inserted their transactions, both read the same old
\* balance, and the stored balance lacks one of the two amounts.
C7_Witness ==
    \E p, q \in Procs :
        /\ p # q
        /\ req[p].pc = "done" /\ req[p].op = "fundAccount" /\ req[p].result.code = "OK"
        /\ req[q].pc = "done" /\ req[q].op = "fundAccount" /\ req[q].result.code = "OK"
        /\ req[p].accountId = req[q].accountId
        /\ req[p].readBalance = req[q].readBalance
        /\ req[p].insertedId # req[q].insertedId
        /\ transactions[req[p].insertedId].accountId = req[p].accountId
        /\ transactions[req[q].insertedId].accountId = req[p].accountId
        /\ accounts[req[p].accountId].balance
             < req[p].readBalance + (req[p].amount + 5) \div 10
                                  + (req[q].amount + 5) \div 10

\* C8: the transaction a successful fundAccount call returns is the row
\* this call inserted, also when two calls on the account overlap.
C8_ReturnsOwnRowAlways ==
    \A p \in Procs :
        (req[p].pc = "done" /\ req[p].op = "fundAccount" /\ req[p].result.code = "OK")
            => req[p].result.transaction.id = req[p].insertedId

\* C10: fundAccount and getTransactions, called by a user with valid input
\* for an account id that does not exist or that belongs to another user,
\* end with the same NOT_FOUND and change no account and no transaction.
C10_NotOwnedIsNotFound ==
    [][\A p \in Procs :
          ( /\ req[p].pc \in {"fundAccount", "getTransactions"}
            /\ req'[p].pc # req[p].pc
            /\ req[p].user # 0
            /\ req[p].op = "fundAccount"
                 => /\ req[p].amount >= MinAmountMills
                    /\ req[p].amount <= MaxAmountMills
                    /\ FundingSourceError(req[p].source) = ""
            /\ ~( /\ req[p].accountId \in 1 .. Len(accounts)
                  /\ accounts[req[p].accountId].userId = req[p].user ) )
              => /\ req'[p].pc = "done"
                 /\ req'[p].result = Failure("NOT_FOUND", "Account not found")
                 /\ accounts' = accounts
                 /\ transactions' = transactions]_vars

\* C10 witness: one call for an account of another user and one call for an
\* account id that does not exist have both ended with the same NOT_FOUND.
C10_Witness ==
    \E p, q \in Procs :
        /\ p # q
        /\ req[p].pc = "done" /\ req[p].op = "fundAccount" /\ req[p].user # 0
        /\ req[p].accountId \in 1 .. Len(accounts)
        /\ accounts[req[p].accountId].userId # req[p].user
        /\ req[q].pc = "done" /\ req[q].user # 0
        /\ req[q].op \in {"fundAccount", "getTransactions"}
        /\ req[q].accountId \notin 1 .. Len(accounts)
        /\ req[p].result.code = "NOT_FOUND"
        /\ req[q].result = req[p].result

\* C11: a fundAccount call of a signed-in user whose funding source is a bank
\* transfer without a 9-digit routing number, or a card of no accepted
\* network or with a failing Luhn checksum, ends with BAD_REQUEST whatever
\* the accounts table holds, and leaves accounts and transactions unchanged.
C11_InvalidSourceIsBadRequest ==
    [][\A p \in Procs :
          ( /\ req[p].pc = "fundAccount"
            /\ req'[p].pc # "fundAccount"
            /\ req[p].user # 0
            /\ req[p].amount >= MinAmountMills
            /\ req[p].amount <= MaxAmountMills
            /\ LET source == req[p].source
               IN \/ /\ source.type = "bank"
                     /\ ~(Len(source.routingNumber) = 9 /\ AllDigits(source.routingNumber))
                  \/ /\ source.type = "card"
                     /\ \/ detectCardType(source.accountNumber) = "none"
                        \/ ~isValidLuhn(source.accountNumber) )
              => /\ req'[p].pc = "done"
                 /\ req'[p].result.code = "BAD_REQUEST"
                 /\ accounts' = accounts
                 /\ transactions' = transactions]_vars

\* C11 witness: a call with a Visa number of a failing checksum for the
\* caller's own active account, which holds a deposit already, has ended
\* with BAD_REQUEST.
C11_Witness ==
    \E p \in Procs :
        /\ req[p].pc = "done" /\ req[p].op = "fundAccount"
        /\ req[p].source.type = "card"
        /\ detectCardType(req[p].source.accountNumber) = "visa"
        /\ ~isValidLuhn(req[p].source.accountNumber)
        /\ req[p].accountId \in 1 .. Len(accounts)
        /\ accounts[req[p].accountId].userId = req[p].user
        /\ accounts[req[p].accountId].status = "active"
        /\ accounts[req[p].accountId].balance > 0
        /\ TransactionsOf(req[p].accountId) # {}
        /\ req[p].result.code = "BAD_REQUEST"

\* C12: transactions are append-only.  Every step keeps the rows there are
\* as they are; the table grows by exactly one row in the insert step of a
\* fundAccount call and in no other step; and a fundAccount call that
\* succeeds has made that step once, for a row of type deposit with status
\* completed of the funded account.
C12_AppendOnly ==
    [][/\ Len(transactions') >= Len(transactions)
       /\ \A i \in 1 .. Len(transactions) : transactions'[i] = transactions[i]
       /\ Len(transactions') = Len(transactions)
             + Cardinality({p \in Procs : /\ req[p].pc = "fund_insert"
                                          /\ req'[p].pc = "fund_select"
                                          /\ req[p].insertedId = 0
                                          /\ req'[p].insertedId = Len(transactions')})
       /\ \A p \in Procs :
            ( /\ req'[p].pc = "done"
              /\ req'[p].op = "fundAccount"
              /\ req'[p].result.code = "OK" )
                => /\ req'[p].insertedId \in 1 .. Len(transactions')
                   /\ LET row == transactions'[req'[p].insertedId]
                      IN /\ row.type = "deposit"
                         /\ row.status = "completed"
                         /\ row.accountId = req'[p].accountId
                   /\ \A q \in Procs \ {p} :
                        req'[q].insertedId # req'[p].insertedId]_vars

\* C12 witness: two overlapping fundAccount calls have both succeeded, each
\* with a row of its own, and an earlier row is still in the table.
C12_Witness ==
    \E p, q \in Procs :
        /\ p # q
        /\ req[p].pc = "done" /\ req[p].op = "fundAccount" /\ req[p].result.code = "OK"
        /\ req[q].pc = "done" /\ req[q].op = "fundAccount" /\ req[q].result.code = "OK"
        /\ req[p].insertedId # req[q].insertedId
        /\ Len(transactions) = 2
        /\ \A i \in 1 .. 2 : /\ transactions[i].type = "deposit"
                              /\ transactions[i].status = "completed"

\* C13: a successful getTransactions call returns all and only the
\* transactions of the requested account, each with the account's type, a
\* row inserted by a later fundAccount call before every row inserted by an
\* earlier call.
C13_NewestFirst ==
    \A p \in Procs :
        (req[p].pc = "done" /\ req[p].op = "getTransactions" /\ req[p].result.code = "OK")
            => LET rows == req[p].result.rows
               IN /\ {rows[i].id : i \in DOMAIN rows} = TransactionsOf(req[p].accountId)
                  /\ Len(rows) = Cardinality(TransactionsOf(req[p].accountId))
                  /\ \A i \in DOMAIN rows :
                       rows[i].accountType = accounts[req[p].accountId].accountType
                  /\ \A i, j \in DOMAIN rows : i < j => rows[i].id > rows[j].id

\* C14: every row createAccount inserts has balance 0 and status active and
\* carries the number the call's collision check found unused, and after
\* every step the account numbers in the table are pairwise distinct.
C14_FreshDistinctNumbers ==
    [][/\ \A p \in Procs :
            (req[p].pc = "create_generate" /\ req'[p].pc = "create_insert")
                => \A i \in 1 .. Len(accounts) :
                       accounts[i].accountNumber # req'[p].accountNumber
       /\ Len(accounts') \in {Len(accounts), Len(accounts) + 1}
       /\ Len(accounts') = Len(accounts) + 1
            => /\ accounts'[Len(accounts')].balance = 0
               /\ accounts'[Len(accounts')].status = "active"
               /\ \E p \in Procs :
                    /\ req[p].pc = "create_insert"
                    /\ req'[p].pc = "create_fetch"
                    /\ accounts'[Len(accounts')].accountNumber = req[p].accountNumber
       /\ \A i, j \in 1 .. Len(accounts') :
            i # j => accounts'[i].accountNumber # accounts'[j].accountNumber]_vars

\* C14 witness: two createAccount calls drew the same number and both
\* found it unused; one inserted its row with balance 0 and status active,
\* the other was stopped by the storage.
C14_Witness ==
    \E p, q \in Procs :
        /\ p # q
        /\ req[p].op = "createAccount" /\ req[p].pc = "create_fetch"
        /\ req[q].op = "createAccount" /\ req[q].pc = "done"
        /\ req[q].result.code = "INTERNAL_SERVER_ERROR"
        /\ req[q].accountNumber = req[p].accountNumber
        /\ \E i \in 1 .. Len(accounts) :
             /\ accounts[i].accountNumber = req[p].accountNumber
             /\ accounts[i].balance = 0
             /\ accounts[i].status = "active"

\* C15: createAccount, getAccounts, fundAccount and getTransactions, called
\* with a context without identity, end with UNAUTHORIZED and leave
\* accounts, transactions and sessions unchanged.
C15_NoIdentityIsUnauthorized ==
    [][\A p \in Procs :
          ( /\ req[p].pc \in {"createAccount", "getAccounts",
                               "fundAccount", "getTransactions"}
            /\ req'[p].pc # req[p].pc
            /\ req[p].user = 0 )
              => /\ req'[p].pc = "done"
                 /\ req'[p].result.code = "UNAUTHORIZED"
                 /\ accounts' = accounts
                 /\ transactions' = transactions
                 /\ sessions' = sessions]_vars

\* C15 witness: a fundAccount call without cookie, for an account that
\* exists and with a funding source the checks refuse, has ended with
\* UNAUTHORIZED.
C15_Witness ==
    \E p \in Procs :
        /\ req[p].pc = "done" /\ req[p].op = "fundAccount"
        /\ req[p].cookie = NoToken
        /\ req[p].user = 0
        /\ req[p].accountId \in 1 .. Len(accounts)
        /\ req[p].source.type = "bank"
        /\ req[p].source.routingNumber = <<>>
        /\ req[p].result.code = "UNAUTHORIZED"

\* C16: when isValidLuhn accepts a digit string, it rejects every string
\* that differs from it in exactly one digit.
C16_SingleDigitDetected ==
    (luhn.valid = "yes" /\ luhn.changedValid # "unchecked")
        => luhn.changedValid = "no"

\* C16 witness: isValidLuhn accepted the 16-digit test card and rejected it
\* with its last digit replaced.
C16_Witness ==
    /\ luhn.cardNumber = VisaTest
    /\ luhn.valid = "yes"
    /\ luhn.changed = VisaBadLuhn
    /\ luhn.changedValid = "no"

\* C17: whenever no request is being served, the stored balance of every
\* account is the sum of the amounts of the account's transaction rows, and
\* a balance changes only in the update of a fundAccount call that succeeds.
C17_BalanceIsLedgerSum ==
    [][/\ (\A p \in Procs : req'[p].pc \in {"idle", "done"})
            => \A a \in 1 .. Len(accounts') :
                   accounts'[a].balance = LedgerSumFrom(a, 1)'
       /\ \A a \in 1 .. Len(accounts) :
            accounts'[a].balance # accounts[a].balance
                => \E p \in Procs :
                       /\ req[p].op = "fundAccount"
                       /\ req[p].pc = "fund_update"
                       /\ req[p].accountId = a
                       /\ req'[p].pc = "done"
                       /\ req'[p].result.code = "OK"]_vars

\* C17 witness: after two fundAccount calls with different amounts on one
\* account and with no request being served, the balance is the sum of the
\* two rows.
C17_Witness ==
    /\ \A p \in Procs : req[p].pc = "idle"
    /\ \E a \in 1 .. Len(accounts) :
         /\ Cardinality(TransactionsOf(a)) = 2
         /\ \E i, j \in TransactionsOf(a) : transactions[i].amount # transactions[j].amount
         /\ accounts[a].balance = LedgerSumFrom(a, 1)
         /\ accounts[a].balance = 14

\* C18: after a successful signup with email e and password p, a login with
\* the same e and p succeeds, whatever the case of the letters of e.  With
\* one request at a time a signup has succeeded for e and p exactly when
\* users holds the row signup stores for them: e in lower case and the hash
\* of p.
C18_LoginAfterSignup ==
    \A p \in Procs :
        ( /\ req[p].pc = "done"
          /\ req[p].op = "login"
          /\ \E u \in 1 .. Len(users) :
               /\ users[u].email = ToLowerCase(req[p].email)
               /\ users[u].password = BcryptHash(req[p].password) )
            => req[p].result.code = "OK"

\* C19: right after a logout that returns success = true, createContext
\* with the token of the request's cookie resolves no identity; and a token
\* that resolves no identity resolves one again only by the step of a
\* signup or login that inserts a session with this token.
C19_LogoutInvalidatesToken ==
    [][/\ \A p \in Procs :
            ( /\ req[p].pc = "logout"
              /\ req'[p].pc = "done"
              /\ req'[p].result.success )
                => ContextUser(req[p].cookie, now)' = 0
       /\ \A t \in issued' \cup {ForgedToken} :
            (ContextUser(t, now) = 0 /\ ContextUser(t, now)' # 0)
                => \E q \in Procs :
                       /\ req[q].pc \in {"signup_session", "login_session"}
                       /\ req'[q].pc = "done"
                       /\ req'[q].result.code = "OK"
                       /\ req'[q].result.token = t]_vars

\* C19 witness: a logout with a signed cookie has returned success = true
\* and, the clock not having moved, a request that arrived with the same
\* cookie was resolved to no identity.
C19_Witness ==
    \E p, q \in Procs :
        /\ p # q
        /\ req[p].pc = "done" /\ req[p].op = "logout"
        /\ req[p].result.success
        /\ req[p].cookie.sig
        /\ ticks = 0
        /\ req[q].pc = req[q].op
        /\ req[q].cookie = req[p].cookie
        /\ req[q].user = 0
        /\ ContextUser(req[p].cookie, now) = 0

====
